---------------------------- MODULE Spec2Model ----------------------------
(***************************************************************************)
(* State-machine model of the Mark2 face skill (src/__init__.py): the      *)
(* "busy" interaction tracker, the idle/listening overlay machine and the  *)
(* solar auto-brightness scheduler.  Every bus handler, intent handler and *)
(* timer callback of class Mark2 is one action.                            *)
(***************************************************************************)
EXTENDS Integers, Sequences, FiniteSets

\* ------------------------------------------------------------------ bounds
\* Cap on interaction_id (a Python int, unbounded in the program).
MaxInteraction == 2

\* Last instant of the clock.
MaxTime == 5
\* Cap on the timers pending under one name (the scheduler itself has none).
MaxPending == 2
\* Length of a day in clock units; the solar events fall on units 1, 2, 3.
DayLen == 4

\* ----------------------------------------------------------------- inputs
\* Handler ids are dotted names; a name is the sequence of its parts, so that
\* Python's substring test ("Mark2" in handler) is a test on contiguous parts.
\* <<>> is the "" that message.data.get("handler", "") yields for a missing key.
HandlerIds ==
    { <<"WeatherSkill", "handle_weather">>,
      <<"TimeSkill", "handle_query_time">>,
      <<"Mark2", "handle_brightness">>,
      <<"TimeSkill", "update_display">>,
      <<>> }

\* The bus events that initialize() binds to on_handler_interactingwithuser.
OutputEvents ==
    { "recognizer_loop:audio_output_start",
      "enclosure.mouth.think",
      "enclosure.mouth.events.deactivate",
      "enclosure.mouth.text" }

\* Sources of a gui.page.show message.
PageSources == { <<"Mark2">>, <<"WeatherSkill">>, <<>> }

\* Mouth shapes of an enclosure.mouth.viseme message (message.data["code"]).
VisemeCodes == { "0", "4" }

\* What display_manager.get_active() can answer: '' when no overlay is active.
ActivePages == { "", "weather.qml" }

\* A spoken brightness request, by its lexical units: the integer literals,
\* whether it holds a "%", whether it holds the word "percent", and its
\* other words.
Text(nums, pct, percent, words) ==
    [nums |-> nums, pct |-> pct, percent |-> percent, words |-> words]
Texts ==
    { Text(<<15>>, FALSE, FALSE, <<>>),          \* "15"
      Text(<<-1>>, TRUE, FALSE, <<>>),           \* "-1%"
      Text(<<150>>, TRUE, FALSE, <<>>),          \* "150%"
      Text(<<45>>, FALSE, TRUE, <<>>),           \* "45 percent"
      Text(<<>>, FALSE, FALSE, <<"full">>),      \* "full"
      Text(<<>>, FALSE, FALSE, <<"purple">>) }   \* "purple"
\* message.data.get('brightness') and get_response() both came back empty.
NoText == Text(<<>>, FALSE, FALSE, <<>>)

\* Solar events in the order of the dict _get_auto_time returns.
SolarNames == <<"Sunrise", "Noon", "Sunset">>
SolarSet == { SolarNames[i] : i \in DOMAIN SolarNames }

\* The configured locations: same is "user_set_tz in device_tz", secs is
\* self.location['timezone']['offset'] / -1000 in clock units.
Locations == { [same |-> TRUE, secs |-> 0], [same |-> FALSE, secs |-> -1] }

\* ------------------------------------------------------------------ state
VARIABLES
    idle_count,       \* self.idle_count
    auto_dim_eyes,    \* self.settings['auto_dim_eyes']
    confirm_listening,\* config['confirm_listening'], as the skill last stored it
    idle_check,       \* number of pending repeating 'IdleCheck' events
    auto_brightness,  \* self.auto_brightness: "unset" | "True" | "False"
    scheduled,        \* pending one-shot events: solar name -> Seq of
                      \*   [when, data] in the order they were scheduled
    now,              \* the clock (arrow.now().timestamp)
    location,         \* self.location (device configuration, read only)
    hourglass_info,   \* self.hourglass_info: handler id -> snapshot or -1
    interaction_id,   \* self.interaction_id
    has_show_page,    \* self.has_show_page
    viseme,           \* self.gui["viseme"], "" while never set
    last,             \* the event the reactor delivered last: [event, data]
    emitted,          \* what the last handler sent to gui / enclosure / dialog
    exc,              \* how the last handler ended: "none" | "caught" | "raised"
    grace,            \* per handler id, since its latest handler-start event:
                      \*   "none" (none, or a handler-complete followed),
                      \*   "quiet" (no user-facing output event since),
                      \*   "output" (a user-facing output event since)
    thinking,         \* per handler id, the "thinking.qml" requests that
                      \*   on_handler_started made at its latest start event
    registered,       \* the bus: the set of <<event, handler, how>> bound
    race,             \* two handlers of one id running on two threads
    call              \* a function applied on its own: [fn, arg, done, ret]

trackerVars == <<hourglass_info, interaction_id, has_show_page, viseme, grace, thinking>>
idleVars == <<idle_count, auto_dim_eyes, confirm_listening, idle_check>>
brightVars == <<auto_brightness, scheduled, now, location>>
obsVars == <<last, emitted, exc>>
\* State that no bus handler, intent handler or timer callback touches.
auxVars == <<registered, race, call>>
vars == <<trackerVars, idleVars, brightVars, obsVars, auxVars>>

\* -------------------------------------------------------------- helpers
\* needle in hay, for names as sequences of parts.
Contains(hay, needle) ==
    \E i \in 0..(Len(hay) - Len(needle)) :
        \A j \in 1..Len(needle) : hay[i + j] = needle[j]

\* A check that forgets the background clock.
IsIgnoredHandler_mark2_only(handler) == Contains(handler, <<"Mark2">>)

\* The two early returns of on_handler_started / on_handler_complete.
IsIgnoredHandler(handler) ==
    \/ Contains(handler, <<"Mark2">>)
    \/ Contains(handler, <<"TimeSkill", "update_display">>)

\* Nothing sent to the collaborators.
Quiet ==
    [ pages |-> <<>>,        \* gui.show_page(page)
      reset |-> 0,           \* enclosure.reset()
      mouth_reset |-> 0,     \* enclosure.mouth_reset()
      eyes |-> <<>>,         \* enclosure.eyes_brightness(level)
      dialogs |-> <<>>,      \* speak_dialog(name)
      timers |-> <<>>,       \* cancel_scheduled_event / schedule_*event(name)
      bus |-> <<>> ]         \* bus.emit(Message(name))

Event(name, data) == [event |-> name, data |-> data]

\* dict assignment d[k] = v, and del d[k]
DictSet(d, k, v) == [x \in (DOMAIN d) \cup {k} |-> IF x = k THEN v ELSE d[x]]
DictDel(d, k) == [x \in (DOMAIN d) \ {k} |-> d[x]]

BUSY == -1

\* What initialize() binds: with bus.on (lines 81-99) and with add_event
\* (lines 64-76), each event to the method that handles it.
BusOn ==
    { <<"mycroft.skill.handler.start", "on_handler_started">>,
      <<"mycroft.skill.handler.complete", "on_handler_complete">>,
      <<"recognizer_loop:audio_output_start", "on_handler_interactingwithuser">>,
      <<"enclosure.mouth.think", "on_handler_interactingwithuser">>,
      <<"enclosure.mouth.events.deactivate", "on_handler_interactingwithuser">>,
      <<"enclosure.mouth.text", "on_handler_interactingwithuser">>,
      <<"enclosure.mouth.viseme", "on_handler_speaking">>,
      <<"gui.page.show", "on_gui_page_show">>,
      <<"mycroft.skills.initialized", "reset_face">> }
AddEvent ==
    { <<"mycroft.internet.connected", "handle_internet_connected">>,
      <<"mycroft.eyes.default", "handle_default_eyes">>,
      <<"recognizer_loop:record_begin", "handle_listener_started">>,
      <<"recognizer_loop:record_end", "handle_listener_ended">>,
      <<"mycroft.speech.recognition.unknown", "handle_failed_stt">> }
Registrations ==
    { <<b[1], b[2], "bus.on">> : b \in BusOn }
      \cup { <<a[1], a[2], "add_event">> : a \in AddEvent }

\* No handler is running on a second thread.
NoRace == [handler |-> <<>>, start |-> "idle", complete |-> "idle"]

\* No function is being applied on its own.
NoCall == [fn |-> "", arg |-> <<>>, done |-> FALSE, ret |-> <<>>]

\* The skill after __init__() and initialize().
InitSkill ==
    /\ hourglass_info = <<>>
    /\ interaction_id = 0
    /\ has_show_page = FALSE
    /\ viseme = ""
    /\ last = Event("initialize", <<>>)
    /\ emitted = Quiet
    /\ exc = "none"
    /\ grace = [h \in HandlerIds |-> "none"]
    /\ thinking = [h \in HandlerIds |-> 0]
    /\ idle_count = 99
    /\ auto_dim_eyes = TRUE
    /\ confirm_listening = TRUE
    /\ idle_check = 1
    /\ auto_brightness = "unset"
    /\ scheduled = [n \in SolarSet |-> <<>>]
    /\ now = 0
    /\ location \in Locations
    /\ registered = Registrations
    /\ race = NoRace

Init ==
    /\ InitSkill
    /\ call = NoCall

\* ------------------------------------------------- the "busy" visual
\* An on_handler_started with the show_page call of line 152 live.
StartedPages_shown == <<"thinking.qml">>

\* The pages on_handler_started requests once it has marked the handler busy
\* (the show_page call of line 152 is commented out).
StartedPages == <<>>

\* The value on_handler_started leaves under the handler: the snapshot taken
\* at line 144 is compared with the counter at line 146 with nothing in
\* between (the sleep of line 145 is commented out).
StartedEntry(snapshot, counter) ==
    IF snapshot = counter THEN BUSY ELSE snapshot

on_handler_started(handler) ==
    /\ UNCHANGED <<idleVars, brightVars>>
    /\ last' = Event("mycroft.skill.handler.start", handler)
    /\ UNCHANGED auxVars
    /\ exc' = "none"
    /\ grace' = [grace EXCEPT ![handler] = "quiet"]
    /\ IF IsIgnoredHandler(handler)
       THEN /\ emitted' = Quiet
            /\ thinking' = [thinking EXCEPT ![handler] = 0]
            /\ UNCHANGED <<hourglass_info, interaction_id, has_show_page, viseme>>
       ELSE LET entry == StartedEntry(interaction_id, interaction_id)
                pages == IF entry = BUSY THEN StartedPages ELSE <<>>
            IN  /\ has_show_page' = FALSE
                /\ hourglass_info' = DictSet(hourglass_info, handler, entry)
                /\ emitted' = [Quiet EXCEPT !.pages = pages]
                /\ thinking' = [thinking EXCEPT ![handler] =
                      Cardinality({i \in DOMAIN pages : pages[i] = "thinking.qml"})]
                /\ UNCHANGED <<interaction_id, viseme>>

on_gui_page_show(source) ==
    /\ UNCHANGED <<idleVars, brightVars>>
    /\ last' = Event("gui.page.show", source)
    /\ UNCHANGED auxVars
    /\ exc' = "none"
    /\ emitted' = Quiet
    /\ has_show_page' = IF ~Contains(source, <<"Mark2">>) THEN TRUE ELSE has_show_page
    /\ UNCHANGED <<hourglass_info, interaction_id, viseme, grace, thinking>>

\* A handler that forgets to count.
on_handler_interactingwithuser_nocount(ev) ==
    /\ UNCHANGED <<idleVars, brightVars>>
    /\ interaction_id < MaxInteraction
    /\ last' = Event(ev, <<>>)
    /\ UNCHANGED auxVars
    /\ exc' = "none"
    /\ emitted' = Quiet
    /\ grace' = [h \in HandlerIds |-> IF grace[h] = "none" THEN "none" ELSE "output"]
    /\ UNCHANGED <<hourglass_info, interaction_id, has_show_page, viseme, thinking>>

on_handler_interactingwithuser(ev) ==
    /\ UNCHANGED <<idleVars, brightVars>>
    /\ interaction_id < MaxInteraction
    /\ last' = Event(ev, <<>>)
    /\ UNCHANGED auxVars
    /\ exc' = "none"
    /\ emitted' = Quiet
    /\ interaction_id' = interaction_id + 1
    /\ grace' = [h \in HandlerIds |-> IF grace[h] = "none" THEN "none" ELSE "output"]
    /\ UNCHANGED <<hourglass_info, has_show_page, viseme, thinking>>

\* The body of the try block of on_handler_complete; the lookup of a missing
\* key raises KeyError, which the bare except swallows.
CompleteLookupRaises(handler) == handler \notin DOMAIN hourglass_info

\* A handler that lets the KeyError out.
CompleteOutcomeUncaught(raises) == IF raises THEN "raised" ELSE "none"

\* How on_handler_complete ends: the bare except swallows the KeyError.
CompleteOutcome(raises) == IF raises THEN "caught" ELSE "none"

on_handler_complete(handler) ==
    /\ UNCHANGED <<idleVars, brightVars>>
    /\ last' = Event("mycroft.skill.handler.complete", handler)
    /\ UNCHANGED auxVars
    /\ grace' = [grace EXCEPT ![handler] = "none"]
    /\ UNCHANGED <<interaction_id, has_show_page, viseme, thinking>>
    /\ IF IsIgnoredHandler(handler)
       THEN /\ exc' = "none"
            /\ emitted' = Quiet
            /\ UNCHANGED hourglass_info
       ELSE IF CompleteLookupRaises(handler)
            THEN /\ exc' = CompleteOutcome(TRUE)
                 /\ emitted' = Quiet
                 /\ UNCHANGED hourglass_info
            ELSE /\ exc' = CompleteOutcome(FALSE)
                 /\ emitted' = [Quiet EXCEPT !.reset =
                                   IF hourglass_info[handler] = BUSY THEN 1 ELSE 0]
                 /\ hourglass_info' = DictDel(hourglass_info, handler)

\* ------------------------------------------------ the "speaking" visual
\* A handler that shows the mouth whatever page is up.
on_handler_speaking_always(code) ==
    /\ UNCHANGED <<idleVars, brightVars>>
    /\ last' = Event("enclosure.mouth.viseme", code)
    /\ UNCHANGED auxVars
    /\ exc' = "none"
    /\ viseme' = code
    /\ emitted' = [Quiet EXCEPT !.pages = <<"speaking.qml">>]
    /\ UNCHANGED <<hourglass_info, interaction_id, has_show_page, grace, thinking>>

on_handler_speaking(code) ==
    /\ last' = Event("enclosure.mouth.viseme", code)
    /\ UNCHANGED auxVars
    /\ exc' = "none"
    /\ IF ~has_show_page
       THEN /\ viseme' = code
            /\ emitted' = [Quiet EXCEPT !.pages = <<"speaking.qml">>]
       ELSE /\ emitted' = Quiet
            /\ UNCHANGED viseme
    /\ UNCHANGED <<hourglass_info, interaction_id, has_show_page, grace, thinking>>
    /\ UNCHANGED <<idleVars, brightVars>>

\* ------------------------------------------------ the "idle" visual
CancelIdleCheck == <<"cancel", "IdleCheck">>
ScheduleIdleCheck == <<"schedule", "IdleCheck">>

\* A start_idle_check that only clears the existing checker.
start_idle_check_clear_only(auto_dim) ==
    [pending |-> 0, timers |-> <<CancelIdleCheck>>]

\* cancel_scheduled_event('IdleCheck') followed, when auto-dim is on, by
\* schedule_repeating_event(..., name='IdleCheck'): the pending 'IdleCheck'
\* events afterwards and the scheduler calls made.
start_idle_check(auto_dim) ==
    IF auto_dim
    THEN [pending |-> 1, timers |-> <<CancelIdleCheck, ScheduleIdleCheck>>]
    ELSE [pending |-> 0, timers |-> <<CancelIdleCheck>>]

\* A check_for_idle that keeps ticking in the 'inattentive' state.
IdleCheckCancels_never(count) == FALSE

\* Line 217: whether the tick that raised idle_count to count cancels the timer.
IdleCheckCancels(count) == count > 2

\* Lines 214-221: the page the tick that raised idle_count to count requests.
IdleCheckPages(count) ==
    IF count = 2 THEN <<"idle.qml">>
    ELSE IF count > 2 THEN <<"resting.qml">>
    ELSE <<>>

\* The timer callback; fires only while an 'IdleCheck' event is pending.
\* active is the answer of enclosure.display_manager.get_active().
check_for_idle(active) ==
    /\ idle_check > 0
    /\ last' = Event("IdleCheck", active)
    /\ UNCHANGED auxVars
    /\ exc' = "none"
    /\ UNCHANGED <<trackerVars, brightVars, auto_dim_eyes, confirm_listening>>
    /\ IF ~auto_dim_eyes
       THEN /\ idle_check' = 0
            /\ emitted' = [Quiet EXCEPT !.timers = <<CancelIdleCheck>>]
            /\ UNCHANGED idle_count
       ELSE IF active = ""
            THEN /\ idle_count' = idle_count + 1
                 /\ IF IdleCheckCancels(idle_count')
                    THEN /\ idle_check' = 0
                         /\ emitted' = [Quiet EXCEPT
                                !.timers = <<CancelIdleCheck>>,
                                !.pages = IdleCheckPages(idle_count')]
                    ELSE /\ emitted' = [Quiet EXCEPT
                                !.pages = IdleCheckPages(idle_count')]
                         /\ UNCHANGED idle_check
            ELSE /\ idle_count' = 0
                 /\ emitted' = Quiet
                 /\ UNCHANGED idle_check

handle_listener_started ==
    /\ last' = Event("recognizer_loop:record_begin", <<>>)
    /\ UNCHANGED auxVars
    /\ exc' = "none"
    /\ UNCHANGED <<trackerVars, brightVars, auto_dim_eyes, confirm_listening>>
    /\ IF ~auto_dim_eyes
       THEN /\ idle_check' = 0
            /\ emitted' = [Quiet EXCEPT !.timers = <<CancelIdleCheck>>,
                                        !.pages = <<"listening.qml">>]
            /\ UNCHANGED idle_count
       ELSE IF idle_count > 2
            THEN LET r == start_idle_check(auto_dim_eyes)
                 IN  /\ idle_count' = 0
                     /\ idle_check' = r.pending
                     /\ emitted' = [Quiet EXCEPT !.timers = r.timers,
                                                 !.pages = <<"listening.qml">>]
            ELSE /\ emitted' = [Quiet EXCEPT !.pages = <<"listening.qml">>]
                 /\ UNCHANGED <<idle_count, idle_check>>

handle_listener_ended ==
    /\ last' = Event("recognizer_loop:record_end", <<>>)
    /\ UNCHANGED auxVars
    /\ exc' = "none"
    /\ emitted' = [Quiet EXCEPT !.pages = <<"thinking.qml">>]
    /\ UNCHANGED <<trackerVars, brightVars, idleVars>>

handle_failed_stt ==
    /\ last' = Event("mycroft.speech.recognition.unknown", <<>>)
    /\ UNCHANGED auxVars
    /\ exc' = "none"
    /\ emitted' = [Quiet EXCEPT !.pages = <<"idle.qml">>]
    /\ UNCHANGED <<trackerVars, brightVars, idleVars>>

handle_internet_connected ==
    /\ last' = Event("mycroft.internet.connected", <<>>)
    /\ UNCHANGED auxVars
    /\ exc' = "none"
    /\ emitted' = [Quiet EXCEPT !.mouth_reset = 1]
    /\ UNCHANGED <<trackerVars, brightVars, idleVars>>

handle_default_eyes ==
    /\ last' = Event("mycroft.eyes.default", <<>>)
    /\ UNCHANGED auxVars
    /\ exc' = "none"
    /\ emitted' = Quiet
    /\ UNCHANGED <<trackerVars, brightVars, idleVars>>

\* is_connected is the answer of mycroft.util.connected().
reset_face(is_connected) ==
    /\ last' = Event("mycroft.skills.initialized", is_connected)
    /\ UNCHANGED auxVars
    /\ exc' = "none"
    /\ emitted' = [Quiet EXCEPT !.mouth_reset = IF is_connected THEN 1 ELSE 0]
    /\ UNCHANGED <<trackerVars, brightVars, idleVars>>

\* The settings callback, after the settings store took the new values of
\* auto_dim_eyes and use_listening_beep; only _sync_wake_beep_setting runs.
on_websettings_changed(auto_dim, use_listening_beep) ==
    /\ last' = Event("settings changed", <<auto_dim, use_listening_beep>>)
    /\ UNCHANGED auxVars
    /\ exc' = "none"
    /\ auto_dim_eyes' = auto_dim
    /\ LET use_beep == (use_listening_beep = TRUE)
       IN  IF confirm_listening # use_beep
           THEN /\ confirm_listening' = use_beep
                /\ emitted' = [Quiet EXCEPT !.bus = <<"configuration.updated">>]
           ELSE /\ emitted' = Quiet
                /\ UNCHANGED confirm_listening
    /\ UNCHANGED <<trackerVars, brightVars, idle_count, idle_check>>

\* ------------------------------------------------ brightness
\* int() of a quotient of floats: truncation toward zero.
TruncDiv(a, b) == IF a >= 0 THEN a \div b ELSE -((-a) \div b)

\* A conversion that rounds to the nearest level instead of truncating.
percent_to_level_nearest(percent) == TruncDiv(percent * 30 + 50, 100)

percent_to_level(percent) == TruncDiv(percent * 30, 100)

\* translate_namedvalues('brightness.levels'): the locale's name -> percent.
brightness_dict == [w \in {"full"} |-> 100]

\* int(s) of what is left of the text: one integer literal and nothing else,
\* or ValueError.  <<>> is the failure, <<i>> the value.
ParseInt(text) ==
    IF Len(text.nums) = 1 /\ text.words = <<>> /\ ~text.pct /\ ~text.percent
    THEN <<text.nums[1]>>
    ELSE <<>>

\* A parser that takes every plain integer in 0..100 as a percentage.
parse_brightness_plain_percent(text) ==
    IF /\ text.nums = <<>> /\ ~text.pct /\ ~text.percent
       /\ Len(text.words) = 1 /\ text.words[1] \in DOMAIN brightness_dict
    THEN <<brightness_dict[text.words[1]]>>
    ELSE IF text.pct
    THEN ParseInt([text EXCEPT !.pct = FALSE])
    ELSE IF text.percent
    THEN ParseInt([text EXCEPT !.percent = FALSE])
    ELSE LET r == ParseInt(text)
         IN  IF r = <<>> THEN <<>>
             ELSE IF r[1] < 0 \/ r[1] > 100 THEN <<>> ELSE r

\* <<>> is None, <<p>> the percentage.
parse_brightness(text) ==
    IF /\ text.nums = <<>> /\ ~text.pct /\ ~text.percent
       /\ Len(text.words) = 1 /\ text.words[1] \in DOMAIN brightness_dict
    THEN <<brightness_dict[text.words[1]]>>
    ELSE IF text.pct
    THEN ParseInt([text EXCEPT !.pct = FALSE])
    ELSE IF text.percent
    THEN ParseInt([text EXCEPT !.percent = FALSE])
    ELSE LET r == ParseInt(text)
         IN  IF r = <<>> THEN <<>>
             ELSE LET i == r[1]
                  IN  IF i < 0 \/ i > 100 THEN <<>>
                      ELSE IF i < 30 THEN <<TruncDiv(i * 100, 30)>>
                      ELSE <<i>>

\* What set_eye_brightness sends: the level, and the spoken percent.
set_eye_brightness(level, speak) ==
    [Quiet EXCEPT !.eyes = <<level>>,
                  !.dialogs = IF speak
                              THEN <<<<"brightness.set", TruncDiv(level * 100, 30)>>>>
                              ELSE <<>>]

\* ast_loc.sun() for the date of now: the solar instants of that day.
sun(today) ==
    [ sunrise |-> today * DayLen + 1,
      noon    |-> today * DayLen + 2,
      sunset  |-> today * DayLen + 3 ]

get_auto_time(t_now, tz) ==
    LET s == sun(t_now \div DayLen)
        shift == IF tz.same THEN 0 ELSE tz.secs
    IN  [ Sunrise |-> <<s.sunrise + shift, 20>>,
          Noon    |-> <<s.noon + shift, 30>>,
          Sunset  |-> <<s.sunset + shift, 5>> ]

\* cancel_scheduled_event(name): every pending event of that name goes.
cancel_scheduled_event(sched, name) == [sched EXCEPT ![name] = <<>>]

\* schedule_event(handler, when, data, name): one more pending event.
schedule_event(sched, when, data, name) ==
    [sched EXCEPT ![name] = Append(@, [when |-> when, data |-> data])]

schedule_brightness(sched, time_of_day, pair, t_now) ==
    LET d_time == pair[1]
        brightness == pair[2]
        data == <<time_of_day, brightness>>
    IN  IF t_now > d_time
        THEN schedule_event(sched, d_time + DayLen, data, time_of_day)
        ELSE schedule_event(sched, d_time, data, time_of_day)

Abs(x) == IF x < 0 THEN -x ELSE x

\* The loop of handle_auto_brightness over auto_time.items(), k entries done:
\* the schedule so far and nearest_time_to_now as <<distance, level, name>>,
\* distance -1 standing for float('inf').
RECURSIVE AutoLoop(_, _, _, _)
AutoLoop(k, sched, auto_time, t_now) ==
    IF k = 0 THEN [sched |-> sched, nearest |-> <<-1, 0, "">>]
    ELSE LET prev == AutoLoop(k - 1, sched, auto_time, t_now)
             time_of_day == SolarNames[k]
             pair == auto_time[time_of_day]
             dist == Abs(t_now - pair[1])
         IN  [ sched |-> schedule_brightness(prev.sched, time_of_day, pair, t_now),
               nearest |-> IF prev.nearest[1] = -1 \/ dist < prev.nearest[1]
                           THEN <<dist, pair[2], time_of_day>>
                           ELSE prev.nearest ]

\* The body of handle_auto_brightness, also reached from _set_brightness.
AutoBrightness ==
    LET r == AutoLoop(Len(SolarNames), scheduled, get_auto_time(now, location), now)
    IN  /\ auto_brightness' = "True"
        /\ scheduled' = r.sched
        /\ emitted' = [set_eye_brightness(r.nearest[2], FALSE) EXCEPT !.timers =
                          [k \in DOMAIN SolarNames |-> <<"schedule", SolarNames[k]>>]]

CanSchedule == \A n \in SolarSet : Len(scheduled[n]) < MaxPending

handle_auto_brightness ==
    /\ CanSchedule
    /\ last' = Event("brightness.auto.intent", <<>>)
    /\ UNCHANGED auxVars
    /\ exc' = "none"
    /\ AutoBrightness
    /\ UNCHANGED <<trackerVars, idleVars, now, location>>

set_brightness(brightness) ==
    LET percent == parse_brightness(brightness)
    IN  IF percent = <<>>
        THEN /\ emitted' = [Quiet EXCEPT !.dialogs = <<<<"brightness.not.found.final", 0>>>>]
             /\ UNCHANGED <<auto_brightness, scheduled>>
        ELSE IF percent[1] = -1
        THEN /\ CanSchedule
             /\ AutoBrightness
        ELSE /\ auto_brightness' = "False"
             /\ emitted' = set_eye_brightness(percent_to_level(percent[1]), TRUE)
             /\ UNCHANGED scheduled

handle_brightness(brightness) ==
    /\ last' = Event("brightness.intent", brightness)
    /\ UNCHANGED auxVars
    /\ exc' = "none"
    /\ IF brightness # NoText
       THEN set_brightness(brightness)
       ELSE /\ emitted' = Quiet
            /\ UNCHANGED <<auto_brightness, scheduled>>
    /\ UNCHANGED <<trackerVars, idleVars, now, location>>

\* s without its i-th element.
RemoveAt(s, i) == SubSeq(s, 1, i - 1) \o SubSeq(s, i + 1, Len(s))

\* A callback that ignores the mode.
BrightnessEventApplies_always(auto_b) == TRUE

\* Line 478: self.auto_brightness is True.
BrightnessEventApplies(auto_b) == auto_b = "True"

\* The scheduler delivers the i-th pending event of a name once its time has
\* come, and drops it (one-shot); the callback then runs.
handle_eye_brightness_event(name, i) ==
    /\ i \in DOMAIN scheduled[name]
    /\ scheduled[name][i].when <= now
    /\ LET ev == scheduled[name][i]
           pending == [scheduled EXCEPT ![name] = RemoveAt(@, i)]
       IN  /\ last' = Event("timer", ev)
           /\ IF auto_brightness = "unset"
              THEN /\ exc' = "raised"
                   /\ emitted' = Quiet
                   /\ scheduled' = pending
              ELSE /\ exc' = "none"
                   /\ IF BrightnessEventApplies(auto_brightness)
                      THEN LET time_of_day == ev.data[1]
                               level == ev.data[2]
                               pair == get_auto_time(now, location)[time_of_day]
                           IN  /\ emitted' = [set_eye_brightness(level, FALSE)
                                      EXCEPT !.timers = << <<"cancel", time_of_day>>,
                                                           <<"schedule", time_of_day>> >>]
                               /\ scheduled' = schedule_brightness(
                                      cancel_scheduled_event(pending, time_of_day),
                                      time_of_day, pair, now)
                      ELSE /\ emitted' = Quiet
                           /\ scheduled' = pending
    /\ UNCHANGED <<trackerVars, idleVars, auto_brightness, now, location>>
    /\ UNCHANGED auxVars

\* Time passes.
Tick ==
    /\ now < MaxTime
    /\ now' = now + 1
    /\ last' = Event("time", <<>>)
    /\ UNCHANGED auxVars
    /\ exc' = "none"
    /\ emitted' = Quiet
    /\ UNCHANGED <<trackerVars, idleVars, auto_brightness, scheduled, location>>

NextTracker ==
    \/ \E h \in HandlerIds : on_handler_started(h)
    \/ \E h \in HandlerIds : on_handler_complete(h)
    \/ \E ev \in OutputEvents : on_handler_interactingwithuser(ev)
    \/ \E s \in PageSources : on_gui_page_show(s)
    \/ \E c \in VisemeCodes : on_handler_speaking(c)

NextIdle ==
    \/ \E a \in ActivePages : check_for_idle(a)
    \/ handle_listener_started
    \/ handle_listener_ended
    \/ handle_failed_stt
    \/ handle_internet_connected
    \/ handle_default_eyes
    \/ \E c \in BOOLEAN : reset_face(c)
    \/ \E d \in BOOLEAN, b \in BOOLEAN : on_websettings_changed(d, b)

NextBright ==
    \/ handle_auto_brightness
    \/ \E t \in Texts \cup {NoText} : handle_brightness(t)
    \/ \E n \in SolarSet, i \in 1..MaxPending : handle_eye_brightness_event(n, i)
    \/ Tick

Next == NextTracker \/ NextIdle \/ NextBright

\* The whole skill: every handler, intent and timer callback, interleaved.
Spec == Init /\ [][Next]_vars

\* The three reactors, each alone.  No action of one reads or writes a
\* variable of another (see the UNCHANGED of each action).
SpecTracker == Init /\ [][NextTracker]_vars

SpecIdle == Init /\ [][NextIdle]_vars

SpecBright == Init /\ [][NextBright]_vars

\* Every event of every reactor, each reactor explored from the states in
\* which the other two are as initialize() left them.
TrackerAtRest ==
    /\ hourglass_info = <<>>
    /\ interaction_id = 0
    /\ has_show_page = FALSE
    /\ viseme = ""
    /\ \A h \in HandlerIds : grace[h] = "none"
IdleAtRest ==
    /\ idle_count = 99
    /\ idle_check = 1
    /\ auto_dim_eyes
    /\ confirm_listening
BrightAtRest ==
    /\ auto_brightness = "unset"
    /\ now = 0
    /\ \A n \in SolarSet : scheduled[n] = <<>>

NextReactors ==
    \/ IdleAtRest /\ BrightAtRest /\ NextTracker
    \/ TrackerAtRest /\ BrightAtRest /\ NextIdle
    \/ TrackerAtRest /\ IdleAtRest /\ NextBright

SpecReactors == Init /\ [][NextReactors]_vars

\* ===================================================================
\* Claims about the interaction tracker (SpecTracker)

\* The handler ids the claims call excluded.
\* ---------------------------------------------------------------------------
\* The bus bindings from initialize() to shutdown()
\* ---------------------------------------------------------------------------

\* The bindings shutdown() removes with self.bus.remove (lines 116-128).
ShutdownRemoves ==
    { <<"mycroft.skill.handler.start", "on_handler_started">>,
      <<"mycroft.skill.handler.complete", "on_handler_complete">>,
      <<"recognizer_loop:audio_output_start", "on_handler_interactingwithuser">>,
      <<"enclosure.mouth.think", "on_handler_interactingwithuser">>,
      <<"enclosure.mouth.events.deactivate", "on_handler_interactingwithuser">>,
      <<"enclosure.mouth.text", "on_handler_interactingwithuser">>,
      <<"enclosure.mouth.viseme", "on_handler_speaking">> }

\* The skill is unloaded: shutdown() removes its list of bindings; what
\* add_event bound is dropped by the skill's base class ("Gotta clean up
\* manually since not using add_event()", line 114).
shutdown ==
    /\ registered = Registrations
    /\ registered' = { r \in registered :
                         r[3] = "bus.on" /\ <<r[1], r[2]>> \notin ShutdownRemoves }
    /\ last' = Event("shutdown", <<>>)
    /\ exc' = "none"
    /\ emitted' = Quiet
    /\ UNCHANGED <<trackerVars, idleVars, brightVars, race, call>>

\* The bus delivers an event to the method bound to it, if any still is.
Bound(event, handler) ==
    \E r \in registered : r[1] = event /\ r[2] = handler

NextBus ==
    \/ /\ IdleAtRest
       /\ \/ /\ Bound("mycroft.skill.handler.start", "on_handler_started")
             /\ \E h \in HandlerIds : on_handler_started(h)
          \/ /\ Bound("mycroft.skill.handler.complete", "on_handler_complete")
             /\ \E h \in HandlerIds : on_handler_complete(h)
          \/ \E ev \in OutputEvents :
                /\ Bound(ev, "on_handler_interactingwithuser")
                /\ on_handler_interactingwithuser(ev)
          \/ /\ Bound("gui.page.show", "on_gui_page_show")
             /\ \E s \in PageSources : on_gui_page_show(s)
          \/ /\ Bound("enclosure.mouth.viseme", "on_handler_speaking")
             /\ \E c \in VisemeCodes : on_handler_speaking(c)
    \/ /\ TrackerAtRest
       /\ \/ /\ Bound("recognizer_loop:record_begin", "handle_listener_started")
             /\ handle_listener_started
          \/ /\ Bound("recognizer_loop:record_end", "handle_listener_ended")
             /\ handle_listener_ended
          \/ /\ Bound("mycroft.speech.recognition.unknown", "handle_failed_stt")
             /\ handle_failed_stt
          \/ /\ Bound("mycroft.internet.connected", "handle_internet_connected")
             /\ handle_internet_connected
          \/ /\ Bound("mycroft.eyes.default", "handle_default_eyes")
             /\ handle_default_eyes
          \/ /\ Bound("mycroft.skills.initialized", "reset_face")
             /\ \E c \in BOOLEAN : reset_face(c)
    \/ shutdown

SpecBus == Init /\ [][NextBus]_vars

\* ---------------------------------------------------------------------------
\* on_handler_started and on_handler_complete of one id on two threads
\* ---------------------------------------------------------------------------
\* The bus runs each handler on a thread of its own; every access to the
\* dict is one step.  race.start and race.complete are the line each thread
\* is about to run.

\* The bus hands handler-start and handler-complete of one id, which passes
\* the early returns of both handlers, to two threads.
race_dispatch(handler) ==
    /\ race = NoRace
    /\ ~IsIgnoredHandler(handler)
    /\ race' = [handler |-> handler, start |-> "144", complete |-> "174"]
    /\ last' = Event("dispatch", handler)
    /\ exc' = "none"
    /\ emitted' = Quiet
    /\ UNCHANGED <<trackerVars, idleVars, brightVars, registered, call>>

\* Lines 143-144: clear has_show_page, store the counter under the id.
started_store ==
    /\ race.start = "144"
    /\ has_show_page' = FALSE
    /\ hourglass_info' = DictSet(hourglass_info, race.handler, interaction_id)
    /\ race' = [race EXCEPT !.start = "146"]
    /\ last' = Event("mycroft.skill.handler.start", race.handler)
    /\ exc' = "none"
    /\ emitted' = Quiet
    /\ UNCHANGED <<interaction_id, viseme, grace, thinking>>
    /\ UNCHANGED <<idleVars, brightVars, registered, call>>

\* Line 146 is outside any try: the KeyError of a missing id leaves the handler.
StartedLookupOutcome(found) == IF found THEN "none" ELSE "raised"

\* Line 146: look the id up and compare with the counter.
started_compare ==
    /\ race.start = "146"
    /\ LET found == race.handler \in DOMAIN hourglass_info
       IN  /\ exc' = StartedLookupOutcome(found)
           /\ race' = [race EXCEPT !.start =
                  IF found /\ hourglass_info[race.handler] = interaction_id
                  THEN "149" ELSE "done"]
    /\ last' = Event("mycroft.skill.handler.start", race.handler)
    /\ emitted' = Quiet
    /\ UNCHANGED <<trackerVars, idleVars, brightVars, registered, call>>

\* Line 149: mark the id busy.
started_mark ==
    /\ race.start = "149"
    /\ hourglass_info' = DictSet(hourglass_info, race.handler, BUSY)
    /\ race' = [race EXCEPT !.start = "done"]
    /\ last' = Event("mycroft.skill.handler.start", race.handler)
    /\ exc' = "none"
    /\ emitted' = [Quiet EXCEPT !.pages = StartedPages]
    /\ UNCHANGED <<interaction_id, has_show_page, viseme, grace, thinking>>
    /\ UNCHANGED <<idleVars, brightVars, registered, call>>

\* Lines 174-175: look the id up, reset the enclosure if it is busy.
complete_lookup ==
    /\ race.complete = "174"
    /\ LET raises == CompleteLookupRaises(race.handler)
       IN  /\ exc' = CompleteOutcome(raises)
           /\ race' = [race EXCEPT
                  !.complete = IF raises THEN "done" ELSE "176"]
           /\ emitted' = [Quiet EXCEPT !.reset =
                  IF ~raises /\ hourglass_info[race.handler] = BUSY THEN 1 ELSE 0]
    /\ last' = Event("mycroft.skill.handler.complete", race.handler)
    /\ UNCHANGED <<trackerVars, idleVars, brightVars, registered, call>>

\* Line 176: delete the id.
complete_delete ==
    /\ race.complete = "176"
    /\ LET raises == CompleteLookupRaises(race.handler)
       IN  /\ exc' = CompleteOutcome(raises)
           /\ hourglass_info' = IF raises THEN hourglass_info
                                ELSE DictDel(hourglass_info, race.handler)
    /\ race' = [race EXCEPT !.complete = "done"]
    /\ last' = Event("mycroft.skill.handler.complete", race.handler)
    /\ emitted' = Quiet
    /\ UNCHANGED <<interaction_id, has_show_page, viseme, grace, thinking>>
    /\ UNCHANGED <<idleVars, brightVars, registered, call>>

\* Both handlers have returned.
race_over ==
    /\ race.start = "done"
    /\ race.complete = "done"
    /\ race' = NoRace
    /\ last' = Event("returned", race.handler)
    /\ exc' = "none"
    /\ emitted' = Quiet
    /\ UNCHANGED <<trackerVars, idleVars, brightVars, registered, call>>

NextRace ==
    \/ \E h \in HandlerIds : race_dispatch(h)
    \/ started_store
    \/ started_compare
    \/ started_mark
    \/ complete_lookup
    \/ complete_delete
    \/ race_over
    \/ \E ev \in OutputEvents : on_handler_interactingwithuser(ev)

SpecRace == Init /\ [][NextRace]_vars

\* ---------------------------------------------------------------------------
\* The brightness conversions applied on their own
\* ---------------------------------------------------------------------------

\* The documented ranges: a percentage is 0..MaxPercent, a level 0..MaxLevel.
MaxPercent == 100
MaxLevel == 30
\* The plain integers tried are -MaxBare..MaxBare.
MaxBare == 103

\* "i" as the user says it, with nothing around it.
BareText(i) == Text(<<i>>, FALSE, FALSE, <<>>)
BareTexts == { BareText(i) : i \in (-MaxBare)..MaxBare }
\* Texts with no integer, with two, or with a word beside the integer.
OddTexts ==
    { Text(<<>>, FALSE, FALSE, <<"purple">>),           \* "purple"
      Text(<<1, 2>>, FALSE, FALSE, <<>>),               \* "1 2"
      Text(<<50>>, FALSE, FALSE, <<"about">>),          \* "about 50"
      Text(<<>>, TRUE, FALSE, <<>>),                    \* "%"
      Text(<<50>>, TRUE, TRUE, <<>>),                   \* "50 % percent"
      Text(<<>>, FALSE, TRUE, <<"half">>) }             \* "half percent"
ParseInputs == BareTexts \cup Texts \cup OddTexts \cup {NoText}

Call(fn, arg) == [fn |-> fn, arg |-> arg, done |-> FALSE, ret |-> <<>>]
Calls ==
    { Call("parse_brightness", t) : t \in ParseInputs }
      \cup { Call("percent_to_level", p) : p \in 0..MaxPercent }
      \cup { Call("_set_brightness", t) : t \in BareTexts }

InitPure ==
    /\ InitSkill
    /\ call \in Calls

\* A function returns to its caller and touches nothing of the skill.
Return(value) ==
    /\ ~call.done
    /\ call' = [call EXCEPT !.done = TRUE, !.ret = value]
    /\ last' = Event("call", call.fn)
    /\ exc' = "none"
    /\ emitted' = Quiet
    /\ UNCHANGED <<trackerVars, idleVars, brightVars, registered, race>>

apply_parse_brightness ==
    /\ call.fn = "parse_brightness"
    /\ Return(parse_brightness(call.arg))

apply_percent_to_level ==
    /\ call.fn = "percent_to_level"
    /\ Return(<<percent_to_level(call.arg)>>)

\* The brightness intent with the text: handle_brightness hands it to
\* _set_brightness.
apply_set_brightness ==
    /\ call.fn = "_set_brightness"
    /\ handle_brightness(call.arg)

NextPure ==
    \/ apply_parse_brightness
    \/ apply_percent_to_level
    \/ apply_set_brightness

SpecPure == InitPure /\ [][NextPure]_vars

\* ---------------------------------------------------------------------------
\* Claims
\* ---------------------------------------------------------------------------

ExcludedIds == { <<"Mark2", "handle_brightness">>, <<"TimeSkill", "update_display">> }

\* C1: for every handler id that is not excluded, a handler-start after which
\* no user-facing output occurs makes the tracker request the "thinking" page
\* exactly once for that start.
C1_ThinkingOnceWhenQuiet ==
    \A h \in HandlerIds \ ExcludedIds :
        grace[h] = "quiet" => thinking[h] = 1

\* C7: a handler-complete for a handler id without an entry does not raise
\* and changes nothing: the map, the counter and the page-shown flag stay as
\* they were and no overlay reset is requested.
C7_UnknownCompleteIsNoOp ==
    [][ ( /\ last'.event = "mycroft.skill.handler.complete"
          /\ last'.data \notin DOMAIN hourglass_info )
        => ( /\ exc' # "raised"
             /\ hourglass_info' = hourglass_info
             /\ interaction_id' = interaction_id
             /\ has_show_page' = has_show_page
             /\ emitted'.reset = 0 ) ]_vars

\* A handler-complete of a handler that is not excluded found no entry.
C7_Witness ==
    /\ last.event = "mycroft.skill.handler.complete"
    /\ last.data \notin ExcludedIds
    /\ exc = "caught"
    /\ emitted.reset = 0

\* C8: a handler-start followed by a user-facing output makes the tracker
\* request no "thinking" page for that start.
C8_NoThinkingAfterOutput ==
    \A h \in HandlerIds \ ExcludedIds :
        grace[h] = "output" => thinking[h] = 0

\* A handler that is not excluded started, and output followed.
C8_Witness ==
    \E h \in HandlerIds \ ExcludedIds :
        /\ grace[h] = "output"
        /\ h \in DOMAIN hourglass_info
        /\ interaction_id > 0

\* C9: hourglass_info holds an entry for a handler id exactly when the id is
\* not excluded and its latest handler-start has not been followed by a
\* handler-complete; start and complete events of excluded handlers leave
\* the map as it is.
C9_EntryIffStartedNotCompleted ==
    /\ [](\A h \in HandlerIds :
            (h \in DOMAIN hourglass_info) <=> (h \notin ExcludedIds /\ grace[h] # "none"))
    /\ [][ ( /\ last'.event \in { "mycroft.skill.handler.start",
                                  "mycroft.skill.handler.complete" }
             /\ last'.data \in ExcludedIds )
           => hourglass_info' = hourglass_info ]_vars

\* An excluded handler has started while another handler holds an entry.
C9_Witness ==
    /\ \E h \in ExcludedIds : grace[h] # "none"
    /\ \E h \in HandlerIds \ ExcludedIds : h \in DOMAIN hourglass_info
    /\ \E h \in HandlerIds \ ExcludedIds : h \notin DOMAIN hourglass_info /\ grace[h] = "none"
    /\ last.event = "mycroft.skill.handler.start"
    /\ last.data \in ExcludedIds

\* ===================================================================
\* Claims about the idle / listening machine (SpecIdle)

\* An idle-check tick that found no active overlay while auto-dim is on.
QuietTick ==
    /\ last'.event = "IdleCheck"
    /\ last'.data = ""
    /\ auto_dim_eyes

\* C4: with auto-dim on and the timer armed, ticks that find no active overlay
\* take idle_count 0 to 1 with no page request, 1 to 2 with the "idle" page,
\* and 2 to 3 with the "resting" page and the IdleCheck timer cancelled; a
\* tick fires only while an IdleCheck event is pending.
C4_IdleEscalation ==
    [][ /\ last'.event = "IdleCheck" => idle_check > 0
        /\ QuietTick =>
            /\ idle_count = 0 =>
                 /\ idle_count' = 1
                 /\ emitted'.pages = <<>>
                 /\ idle_check' = idle_check
            /\ idle_count = 1 =>
                 /\ idle_count' = 2
                 /\ emitted'.pages = <<"idle.qml">>
                 /\ idle_check' = idle_check
            /\ idle_count = 2 =>
                 /\ idle_count' = 3
                 /\ emitted'.pages = <<"resting.qml">>
                 /\ emitted'.timers = <<CancelIdleCheck>>
                 /\ idle_check' = 0 ]_vars

\* The third quiet tick from idle_count = 0 has run.
C4_Witness ==
    /\ last.event = "IdleCheck"
    /\ last.data = ""
    /\ auto_dim_eyes
    /\ idle_count = 3
    /\ idle_check = 0
    /\ emitted.pages = <<"resting.qml">>

\* C5: with auto-dim on, a listening-start in the resting state (idle_count > 2)
\* sets idle_count to 0 and leaves exactly one IdleCheck timer pending; a tick
\* requests the "idle" page only from idle_count = 1 with no active overlay, and
\* idle_count reaches 1 only by a tick from 0 that finds no active overlay and
\* requests no page: the "idle" page comes with the 2nd such tick, not earlier.
C5_RearmThenSecondTick ==
    [][ /\ ( /\ last'.event = "recognizer_loop:record_begin"
             /\ auto_dim_eyes
             /\ idle_count > 2 )
           => /\ idle_count' = 0
              /\ idle_check' = 1
              /\ emitted'.timers = <<CancelIdleCheck, ScheduleIdleCheck>>
        /\ ( /\ last'.event = "IdleCheck"
             /\ \E i \in DOMAIN emitted'.pages : emitted'.pages[i] = "idle.qml" )
           => /\ idle_count = 1
              /\ idle_count' = 2
              /\ last'.data = ""
        /\ ( idle_count' = 1 /\ idle_count # 1 )
           => /\ idle_count = 0
              /\ last'.event = "IdleCheck"
              /\ last'.data = ""
              /\ emitted'.pages = <<>>
        /\ ( QuietTick /\ idle_count = 1 )
           => emitted'.pages = <<"idle.qml">> ]_vars

\* A listening-start has just re-armed the timer from the resting state.
C5_Witness ==
    /\ last.event = "recognizer_loop:record_begin"
    /\ auto_dim_eyes
    /\ emitted.timers = <<CancelIdleCheck, ScheduleIdleCheck>>
    /\ idle_count = 0
    /\ idle_check = 1

\* ===================================================================
\* Claims about every event (SpecReactors)

\* C10: interaction_id never decreases: each user-facing output event raises
\* it by exactly 1 and no other event changes it.
C10_CounterCountsOutputs ==
    [][ IF last'.event \in OutputEvents
        THEN interaction_id' = interaction_id + 1
        ELSE interaction_id' = interaction_id ]_vars

\* User-facing output events have been counted.
C10_Witness ==
    /\ last.event \in OutputEvents
    /\ interaction_id >= 2

\* ===================================================================
\* Claims about the brightness scheduler (SpecBright)

\* C2: at most one timer is pending under each of Sunrise, Noon and Sunset.
C2_OnePendingPerName ==
    \A n \in SolarSet : Len(scheduled[n]) <= 1

\* C3: when a solar event's timer fires while auto-mode is on, the event of
\* that name is pending again, at an instant at least a day later than the
\* instant of the timer that fired.
C3_RearmedADayLater ==
    [][ ( last'.event = "timer" /\ auto_brightness = "True" )
        => LET fired == last'.data
               again == scheduled'[fired.data[1]]
           IN  /\ Len(again) >= 1
               /\ \A i \in DOMAIN again : again[i].when >= fired.when + DayLen ]_vars

\* The text of a brightness intent parses to a percentage to set.
ValidManualText(text) ==
    /\ text # NoText
    /\ parse_brightness(text) # <<>>
    /\ parse_brightness(text)[1] # -1

IsBare(text) ==
    Len(text.nums) = 1 /\ text.words = <<>> /\ ~text.pct /\ ~text.percent
Unparseable(text) ==
    \/ Len(text.nums) # 1 /\ ~(text.nums = <<>> /\ text.words = <<"full">>
                                /\ ~text.pct /\ ~text.percent)
    \/ Len(text.nums) = 1 /\ text.words # <<>>
    \/ text.pct /\ text.percent
C11_WitnessUnparseable ==
    /\ call.fn = "parse_brightness"
    /\ call.done
    /\ call.arg.words = <<"about">>
    /\ call.ret = <<>>

\* C12: for every percentage p in 0..100, percent_to_level(p) is
\* floor(p * 30 / 100), lies in 0..30 and does not decrease as p grows;
\* percent_to_level(0) = 0, percent_to_level(50) = 15, percent_to_level(100) = 30.
C12_PercentToLevel ==
    (call.fn = "percent_to_level" /\ call.done /\ call.arg \in 0..100) =>
        LET p == call.arg
            level == call.ret[1]
        IN  /\ level = (p * 30) \div 100
            /\ level \in 0..30
            /\ \A q \in 0..p : percent_to_level(q) <= level
            /\ (p = 0 => level = 0)
            /\ (p = 50 => level = 15)
            /\ (p = 100 => level = 30)
C12_Witness ==
    /\ call.fn = "percent_to_level"
    /\ call.done
    /\ call.arg = 50
    /\ call.ret = <<15>>

\* C13: when a user-facing-output event follows the start of a handler that
\* is not excluded, the handler's entry stays the counter snapshot and is
\* never the busy sentinel, so the matching handler-complete removes the
\* entry and requests no overlay reset.
C13_OutputKeepsSnapshot ==
    /\ [](\A h \in HandlerIds \ ExcludedIds :
            grace[h] = "output" =>
                (h \in DOMAIN hourglass_info /\ hourglass_info[h] # BUSY))
    /\ [][ ( /\ last'.event = "mycroft.skill.handler.complete"
             /\ last'.data \in HandlerIds \ ExcludedIds
             /\ grace[last'.data] = "output" )
           => ( /\ emitted'.reset = 0
                /\ last'.data \notin DOMAIN hourglass_info' ) ]_vars

\* C14: every brightness level sent to the hardware, by _set_brightness, by
\* handle_auto_brightness or by a solar timer, lies in 0..30, whatever text
\* parse_brightness accepts, "%" and "percent" forms included.
C14_LevelInRange ==
    \A k \in DOMAIN emitted.eyes : emitted.eyes[k] \in 0..MaxLevel

\* C15: every handler that initialize() binds on the bus is unbound by
\* shutdown(): once shutdown has run nothing is left bound, and no bus event,
\* gui.page.show and mycroft.skills.initialized included, runs a handler.
BusEvents == { r[1] : r \in Registrations }
C15_ShutdownUnbindsAll ==
    /\ [](last.event = "shutdown" => registered = {})
    /\ [][ registered # Registrations => last'.event \notin BusEvents ]_vars

\* C16: whatever the sequence of idle ticks, listening events and changes
\* of the auto-dim setting, when auto-dim is enabled and the IdleCheck timer
\* is not armed the tick count is above 2: idle escalation is never left
\* stopped part-way while auto-dim is enabled.
C16_StoppedOnlyWhenDone ==
    (auto_dim_eyes /\ idle_check = 0) => idle_count > 2

\* C18: every timer schedule_brightness sets is in the future of the clock
\* at the moment of scheduling: an instant already past is moved forward by
\* a day, and no timer is set at an instant at or before now.
C18_ScheduledInFuture ==
    [][ \A n \in SolarSet :
          (\E k \in DOMAIN emitted'.timers : emitted'.timers[k] = <<"schedule", n>>)
              => ( /\ scheduled'[n] # <<>>
                   /\ scheduled'[n][Len(scheduled'[n])].when > now ) ]_vars

\* C19: after a gui.page.show whose source does not contain "Mark2", every
\* viseme event is suppressed (no "speaking.qml" request, gui viseme as it
\* was) until the next handler-start of a handler that is not excluded
\* clears the flag; a gui.page.show from a source containing "Mark2" never
\* sets the flag; while the flag is clear each viseme event requests
\* "speaking.qml".
Mark2Sources == { <<"Mark2">> }
C19_VisemeSuppressedAfterPage ==
    /\ [][ ( /\ last'.event = "gui.page.show"
             /\ last'.data \in PageSources \ Mark2Sources )
           => has_show_page' ]_vars
    /\ [][ ( /\ last'.event = "gui.page.show"
             /\ last'.data \in Mark2Sources )
           => has_show_page' = has_show_page ]_vars
    /\ [][ (has_show_page /\ ~has_show_page')
           => ( /\ last'.event = "mycroft.skill.handler.start"
                /\ last'.data \in HandlerIds \ ExcludedIds ) ]_vars
    /\ [][ ( /\ last'.event = "enclosure.mouth.viseme"
             /\ has_show_page )
           => ( /\ emitted'.pages = <<>>
                /\ viseme' = viseme
                /\ has_show_page' ) ]_vars
    /\ [][ ( /\ last'.event = "enclosure.mouth.viseme"
             /\ ~has_show_page )
           => ( /\ emitted'.pages = <<"speaking.qml">>
                /\ viseme' = last'.data ) ]_vars
\* A page of another skill is up, a viseme came and nothing was shown.
C19_Witness ==
    /\ last.event = "enclosure.mouth.viseme"
    /\ has_show_page
    /\ emitted.pages = <<>>
    /\ viseme # last.data

\* C20: the level-to-percent conversion floor(l * 100 / 30) is undone by
\* percent_to_level for every level l in 0..30, so a plain integer i in
\* 0..29 given to _set_brightness commands the hardware level i.
C20_BareLevelCommanded ==
    ( /\ last.event = "brightness.intent"
      /\ IsBare(last.data)
      /\ last.data.nums[1] \in 0..(MaxLevel - 1) )
        => ( /\ emitted.eyes = <<last.data.nums[1]>>
             /\ percent_to_level((last.data.nums[1] * 100) \div 30)
                    = last.data.nums[1] )

\* C17: when handler-start and handler-complete of one id that is not
\* excluded run on two threads and interleave at the single reads and writes
\* of hourglass_info, no interleaving lets the lookup of a missing id raise
\* out of either handler.
C17_NoLookupRaises ==
    (race # NoRace) => exc # "raised"

=============================================================================
